---- MODULE Spec2Model ----
(***************************************************************************)
(* audit_pretty: the pipeline of __main__.main over the legacy registry of *)
(* parsers.py.  One input line is tokenized (parse_message), filtered      *)
(* (should_process), dispatched through the two defaultdict registries     *)
(* (main_info_filters, pretty_printers) and printed, merged or counted.    *)
(*                                                                         *)
(* Python values are tagged: <<"s", x>> is the str x, <<"i", n>> the int n *)
(* and <<"n", "None">> is None.  A dict is a function whose DOMAIN is its  *)
(* key set; already_seen, whose iteration order matters, is a sequence of  *)
(* entries in insertion order.  A raised exception is the value Raise(e).  *)
(***************************************************************************)
EXTENDS Integers, Sequences, FiniteSets, TLC

VARIABLES
    args,               \* the argparse namespace
    pc,                 \* position of main: "start", "reading", "flushing", "exit"
    error,              \* the uncaught exception that ended the process, or "none"
    interrupted_at,     \* where KeyboardInterrupt was raised, or "none"
    history,            \* the lines of stdin that were not skipped, with their records
    already_seen,       \* main's dict already_seen, in insertion order
    stdout,             \* everything printed so far
    pretty_printers,    \* the defaultdict parsers.pretty_printers: key -> printer
    main_info_filters,  \* the defaultdict parsers.main_info_filters: key -> filter
    fi                  \* how many entries of already_seen the flush loop has printed

vars == <<args, pc, error, interrupted_at, history, already_seen, stdout,
          pretty_printers, main_info_filters, fi>>

\* Bound: the number of lines of one run that get past should_process.
MaxRecords == 3

-----------------------------------------------------------------------------
(* Python values *)

S(x) == <<"s", x>>
I(n) == <<"i", n>>
None == <<"n", "None">>
IsStr(v) == v[1] = "s"
IsInt(v) == v[1] = "i"

\* An exception propagating out of a call.
Raise(e) == [exception |-> e]
IsRaise(x) == "exception" \in DOMAIN x

\* dict.get(key, default)
Get(d, key, default) == IF key \in DOMAIN d THEN d[key] ELSE default

\* The dict d without key (del d[key], for a key that is present).
Del(d, key) == [k \in DOMAIN d \ {key} |-> d[k]]

-----------------------------------------------------------------------------
(* Input lines.  A line is "blank", has no 'audit' in it ("noaudit"), does  *)
(* not match the header regex ("nomatch"), or has the header                *)
(* type=<tag> [msg=]audit(<secs>.<sub>:<seq>): and a body, given here as    *)
(* the (key, text) pairs the finditer regex of parse_message finds in it.   *)

Junk(shape) == [shape |-> shape, tag |-> "", secs |-> "", body |-> <<>>]
Audit(tag, secs, body) == [shape |-> "audit", tag |-> tag, secs |-> secs, body |-> body]
Dmesg(tag, secs, body) == [shape |-> "dmesg", tag |-> tag, secs |-> secs, body |-> body]

Lines ==
    { Junk("blank"), Junk("noaudit"), Junk("nomatch"),
      Audit("AVC", "1", << <<"apparmor", "DENIED">>, <<"operation", "open">>,
                           <<"pid", "1">>, <<"comm", "cat">> >>),
      Dmesg("AVC", "2", << <<"apparmor", "DENIED">>, <<"operation", "open">>,
                           <<"pid", "2">>, <<"comm", "cat">>, <<"fsuid", "2">> >>),
      Audit("AVC", "1", << <<"apparmor", "STATUS">>, <<"operation", "open">>,
                           <<"pid", "1">> >>),
      Audit("AVC", "1", << <<"operation", "open">> >>),
      Audit("AVC", "2", << <<"apparmor", "DENIED">>, <<"operation", "open">> >>),
      Audit("SECCOMP", "1", << <<"pid", "1">>, <<"exe", "/bin/sh">>, <<"sig", "0">>,
                               <<"syscall", "59">>, <<"code", "0x7f">> >>),
      Audit("SECCOMP", "2", << <<"pid", "2">>, <<"exe", "/bin/sh">>,
                               <<"arch", "c000003e">>, <<"syscall", "59">> >>),
      Audit("SECCOMP", "1", << <<"pid", "1">>, <<"syscall", "59">> >>),
      Audit("FOO", "1", << <<"pid", "1">>, <<"comm", "cat">>, <<"ip", "0xzz">> >>),
      Audit("FOO", "2", << <<"pid", "2">>, <<"comm", "sh">>, <<"ip", "0xzz">> >>),
      Audit("1326", "1", << <<"pid", "1">> >>),
      Audit("AVC", "1", << <<"apparmor", "DENIED">>, <<"pid", "1">>, <<"comm", "cat">>,
                           <<"time", "abc">> >>),
      Audit("FOO", "2", << <<"pid", "1">>, <<"type", "SECCOMP">>, <<"exe", "/bin/sh">>,
                           <<"syscall", "59">>, <<"pid", "2">> >>) }

\* str.isdigit and int(v) on the digit strings of the model.
DecimalValue == "0" :> 0 @@ "1" :> 1 @@ "2" :> 2 @@ "59" :> 59 @@ "1326" :> 1326
isdigit(v) == v \in DOMAIN DecimalValue

\* int(v, base=16) on the strings of the model that start with '0x'; one that
\* is not a hexadecimal literal raises ValueError.
HexValue == "0x7f" :> 127
startswith0x(v) == v \in {"0x7f", "0xzz"}

\* Lines 34-41: the coercion of one value; a ValueError leaves the string.
Coerce(v) ==
    IF isdigit(v) THEN I(DecimalValue[v])
    ELSE IF startswith0x(v) /\ v \in DOMAIN HexValue THEN I(HexValue[v])
    ELSE S(v)

\* Lines 28-33: result[key] = value for every match in turn, so the last
\* value of a key stays.
LastValue(toks, key) ==
    LET last == CHOOSE i \in DOMAIN toks :
                    /\ toks[i][1] = key
                    /\ \A j \in DOMAIN toks : toks[j][1] = key => j <= i
    IN  toks[last][2]

parse_message(line) ==
    IF line.shape \in {"blank", "noaudit", "nomatch"} THEN None
    ELSE LET toks == << <<"type", line.tag>>, <<"time", line.secs>> >> \o line.body
             keys == {toks[i][1] : i \in DOMAIN toks}
         IN  [k \in keys |-> Coerce(LastValue(toks, k))]

-----------------------------------------------------------------------------
(* Configuration *)

\* The keys of the two registries as parsers.py builds them.
Registered == {S("AVC"), S("SECCOMP")}

\* --until's default.  The source has 2**64-1; TLC's integers are 32 bits
\* wide, and what the default is used for is only to lie above every timestamp.
UntilDefault == 2147483647

Since == {0, 2}
Until == {1, UntilDefault}

\* exclude and only are in one mutually exclusive argparse group.
Namespaces ==
    { a \in [since : Since, until : Until, exclude : SUBSET Registered,
             only : SUBSET Registered, hide_unknown : BOOLEAN,
             merge : BOOLEAN, count : BOOLEAN] :
        a.exclude = {} \/ a.only = {} }

\* As should_process, without the test that --only was given at all.
should_process_OnlyAlways(a, msg, printers) ==
    IF msg = None THEN "False"
    ELSE IF ~IsInt(msg["time"]) THEN "TypeError"
    ELSE IF msg["time"][2] < a.since \/ msg["time"][2] > a.until THEN "False"
    ELSE IF \/ a.exclude # {} /\ msg["type"] \in a.exclude
            \/ msg["type"] \notin a.only THEN "False"
    ELSE IF msg["type"] \notin DOMAIN printers /\ a.hide_unknown THEN "False"
    ELSE "True"

\* int < int; any other comparison of the model's values raises TypeError.
should_process(a, msg, printers) ==
    IF msg = None THEN "False"
    ELSE IF ~IsInt(msg["time"]) THEN "TypeError"
    ELSE IF msg["time"][2] < a.since \/ msg["time"][2] > a.until THEN "False"
    ELSE IF \/ a.exclude # {} /\ msg["type"] \in a.exclude
            \/ a.only # {} /\ msg["type"] \notin a.only THEN "False"
    ELSE IF msg["type"] \notin DOMAIN printers /\ a.hide_unknown THEN "False"
    ELSE "True"

-----------------------------------------------------------------------------
(* Collaborators that are not part of the pipeline: the signal, syscall and *)
(* errno tables and the text layout.  Their results are kept symbolic.      *)

decode_signal(sig) == <<"signal", sig>>
decode_syscall(syscall, arch) == <<"syscall", syscall, arch>>
strerror(code) == <<"errno", code>>
fromtimestamp(t) == <<"datetime", t>>

NoSuffix == <<>>
\* '(' + str(count) + ')'
CountSuffix(count) == <<"(", count, ")">>

\* The rendered block: what the layout helper was given.
pretty_helper(label, time_, urgency, suffix, info, extra_info) ==
    [label |-> label, time |-> time_, urgency |-> urgency, suffix |-> suffix,
     info |-> info, extra_info |-> extra_info]

format_helper(label, timestamp, urgency, suffix, info, extra_info) ==
    [label |-> label, time |-> timestamp, urgency |-> urgency, suffix |-> suffix,
     info |-> info, extra_info |-> extra_info]

\* A call's effect: the lines it printed on stdout and what it returned (or raised).
Returns(printed, ret) == [printed |-> printed, ret |-> ret]

IsBlock(item) == "label" \in DOMAIN item

-----------------------------------------------------------------------------
(* parsers.py *)

default_pretty_printer(msg, suffix) ==
    IF ~IsStr(msg["type"]) THEN Returns(<<>>, Raise("TypeError"))
    ELSE Returns(<<>>,
            pretty_helper(<<"Unknown message type (type=", msg["type"][2], ")">>,
                          Get(msg, "time", I(0)), "warn", suffix,
                          [k \in DOMAIN msg \ {"time", "type"} |-> msg[k]],
                          <<>>))

apparmor_pretty(msg, suffix) ==
    IF "apparmor" \notin DOMAIN msg THEN Returns(<<>>, Raise("KeyError"))
    ELSE IF msg["apparmor"] = S("DENIED") THEN
        Returns(<<>>,
            pretty_helper(<<"AppArmor policy violation">>,
                          Get(msg, "time", I(0)), "warn", suffix,
                          [Operation |-> Get(msg, "operation", S("?")),
                           Profile |-> Get(msg, "profile", S("?")),
                           Target |-> Get(msg, "name", Get(msg, "peer", S("?"))),
                           DeniedMask |-> Get(msg, "denied_mask", S("?"))],
                          [RequestedMask |-> Get(msg, "requested_mask", S("?")),
                           ProcessID |-> Get(msg, "pid", S("?")),
                           FSUID |-> Get(msg, "fsuid", S("?")),
                           OUID |-> Get(msg, "ouid", S("?"))]))
    ELSE LET d == default_pretty_printer(msg, suffix)
         IN  Returns(<<[notice |-> "Unknown AppArmor message type, printing as is."]>>
                        \o d.printed,
                     d.ret)

del_if_present(m, key) == [k \in DOMAIN m \ {key} |-> m[k]]

apparmor_main_info(msg) ==
    IF "apparmor" \notin DOMAIN msg THEN Raise("KeyError")
    ELSE IF msg["apparmor"] = S("DENIED") THEN
        IF {"time", "pid", "comm"} \subseteq DOMAIN msg
        THEN del_if_present(del_if_present(
                 Del(Del(Del(msg, "time"), "pid"), "comm"), "fsuid"), "ouid")
        ELSE Raise("KeyError")
    ELSE msg

seccomp_pretty(msg, suffix) ==
    IF "code" \in DOMAIN msg /\ msg["code"] # I(0) /\ ~IsInt(msg["code"])
    THEN Returns(<<>>, Raise("TypeError"))
    ELSE Returns(<<>>,
            pretty_helper(<<"seccomp policy violation">>,
                          Get(msg, "time", I(0)), "warn", suffix,
                          [Executable |-> Get(msg, "exe", S("?")),
                           Signal |-> decode_signal(Get(msg, "sig", None)),
                           Errno |-> IF "code" \in DOMAIN msg /\ msg["code"] # I(0)
                                     THEN strerror(msg["code"]) ELSE S("?"),
                           SystemCall |-> decode_syscall(Get(msg, "syscall", None),
                                                         Get(msg, "arch", S("c000003e")))],
                          [UserID |-> Get(msg, "uid", S("?")),
                           GroupID |-> Get(msg, "gid", S("?")),
                           AUID |-> Get(msg, "auid", S("?")),
                           PID |-> Get(msg, "pid", S("?")),
                           ThreadName |-> Get(msg, "comm", S("?"))]))

seccomp_main_info(msg) ==
    IF {"exe", "syscall"} \subseteq DOMAIN msg
    THEN [type |-> S("SECCOMP"), exe |-> msg["exe"], syscall |-> msg["syscall"]]
    ELSE Raise("KeyError")

\* The deletions are made on the copy m and the argument is returned.
default_info_filter(msg) ==
    LET m == del_if_present(del_if_present(del_if_present(del_if_present(
                 msg, "time"), "pid"), "fsuid"), "comm")
    IN  msg

\* defaultdict.__getitem__: a missing key is inserted with the default factory's value.
Lookup(registry, key, default) ==
    IF key \in DOMAIN registry THEN registry
    ELSE [k \in DOMAIN registry \cup {key} |->
            IF k = key THEN default ELSE registry[k]]

CallFilter(name, msg) ==
    CASE name = "apparmor_main_info" -> apparmor_main_info(msg)
      [] name = "seccomp_main_info" -> seccomp_main_info(msg)
      [] OTHER -> default_info_filter(msg)

CallPrinter(name, msg, suffix) ==
    CASE name = "apparmor_pretty" -> apparmor_pretty(msg, suffix)
      [] name = "seccomp_pretty" -> seccomp_pretty(msg, suffix)
      [] OTHER -> default_pretty_printer(msg, suffix)

-----------------------------------------------------------------------------
(* parsers/seccomp.py: the later definition of the SECCOMP plugin *)

subdict(msg, keys) == [k \in keys \cap DOMAIN msg |-> msg[k]]

seccomp_pretty_plugin(msg, suffix) ==
    IF "time" \in DOMAIN msg /\ ~IsInt(msg["time"]) THEN Returns(<<>>, Raise("TypeError"))
    ELSE IF ~({"syscall", "arch"} \subseteq DOMAIN msg) THEN Returns(<<>>, Raise("KeyError"))
    ELSE Returns(<<>>,
            format_helper(<<"seccomp policy violation">>,
                          IF "time" \in DOMAIN msg THEN fromtimestamp(msg["time"]) ELSE None,
                          "warn", suffix,
                          [Executable |-> Get(msg, "exe", None),
                           Signal |-> IF Get(msg, "sig", I(0)) # I(0)
                                      THEN decode_signal(msg["sig"]) ELSE None,
                           SystemCall |-> decode_syscall(msg["syscall"], msg["arch"])],
                          [UserID |-> Get(msg, "uid", None),
                           GroupID |-> Get(msg, "gid", None),
                           AUID |-> Get(msg, "auid", None),
                           PID |-> Get(msg, "pid", None),
                           ThreadName |-> Get(msg, "comm", None)]))

seccomp_main_info_plugin(msg) == subdict(msg, {"type", "exe", "syscall", "arch"})

-----------------------------------------------------------------------------
(* __main__.py: main *)

FrozenDict(d) == d

\* The dict already_seen: entries [key, count] in insertion order.
HasKey(d, key) == \E i \in DOMAIN d : d[i].key = key
IndexOf(d, key) == CHOOSE i \in DOMAIN d : d[i].key = key
DictGet(d, key, default) == IF HasKey(d, key) THEN d[IndexOf(d, key)].count ELSE default

\* As DictSet, but an updated key is deleted and inserted again, so it goes last.
DictSet_MoveToEnd(d, key, count) ==
    Append(SelectSeq(d, LAMBDA e : e.key # key), [key |-> key, count |-> count])

\* d[key] = count: a new key goes last, a present key keeps its place.
DictSet(d, key, count) ==
    IF HasKey(d, key)
    THEN [d EXCEPT ![IndexOf(d, key)] = [key |-> key, count |-> count]]
    ELSE Append(d, [key |-> key, count |-> count])

\* As AfterInterrupt, but the interrupt is caught around the read loop only and
\* main() goes on to its summary loop.
AfterInterrupt_ThenFlush(at, a) ==
    IF at = "reading" /\ a.count THEN "flushing" ELSE "exit"

\* KeyboardInterrupt leaves main() and is caught by the except clause at the
\* bottom of the file: the process ends.
AfterInterrupt(at, a) == "exit"

Init ==
    /\ args \in Namespaces
    /\ pc = "start"
    /\ error = "none"
    /\ interrupted_at = "none"
    /\ history = <<>>
    /\ already_seen = <<>>
    /\ stdout = <<>>
    /\ pretty_printers = [t \in Registered |->
                            IF t = S("AVC") THEN "apparmor_pretty" ELSE "seccomp_pretty"]
    /\ main_info_filters = [t \in Registered |->
                            IF t = S("AVC") THEN "apparmor_main_info" ELSE "seccomp_main_info"]
    /\ fi = 0

Setup ==
    /\ pc = "start"
    /\ args' = [args EXCEPT !.merge = IF args.count THEN TRUE ELSE @]
    /\ pc' = "reading"
    /\ UNCHANGED <<error, interrupted_at, history, already_seen, stdout,
                   pretty_printers, main_info_filters, fi>>

Entry(line, msg, sp, raised) == [line |-> line, msg |-> msg, sp |-> sp, raised |-> raised]

\* Lines 138-147, for a record should_process let through.
Process(line, msg) ==
    LET t == msg["type"]
        filters == Lookup(main_info_filters, t, "default_info_filter")
        main_info == CallFilter(filters[t], msg)
        printers == Lookup(pretty_printers, t, "default_pretty_printer")
        r == CallPrinter(printers[t], msg, NoSuffix)
        hashable_info == FrozenDict(main_info)
    IN  /\ main_info_filters' = filters
        /\ IF IsRaise(main_info) THEN
               /\ history' = Append(history, Entry(line, msg, "True", main_info.exception))
               /\ pc' = "exit"
               /\ error' = main_info.exception
               /\ UNCHANGED <<pretty_printers, stdout, already_seen>>
           ELSE IF IsRaise(r.ret) THEN
               /\ history' = Append(history, Entry(line, msg, "True", r.ret.exception))
               /\ pretty_printers' = printers
               /\ pc' = "exit"
               /\ error' = r.ret.exception
               /\ stdout' = stdout \o r.printed
               /\ UNCHANGED already_seen
           ELSE
               /\ history' = Append(history, Entry(line, msg, "True", "none"))
               /\ pretty_printers' = printers
               /\ UNCHANGED <<pc, error>>
               /\ IF args.merge \/ args.count THEN
                      /\ stdout' = stdout \o r.printed \o
                                      (IF ~HasKey(already_seen, hashable_info) /\ ~args.count
                                       THEN <<r.ret>> ELSE <<>>)
                      /\ already_seen' = DictSet(already_seen, hashable_info,
                                             DictGet(already_seen, hashable_info, 0) + 1)
                  ELSE
                      /\ stdout' = stdout \o r.printed \o <<r.ret>>
                      /\ UNCHANGED already_seen

\* One iteration of `for line in sys.stdin`.
ReadLine ==
    /\ pc = "reading"
    /\ \E line \in Lines :
         LET msg == parse_message(line)
             sp == should_process(args, msg, pretty_printers)
         IN  IF sp = "False" THEN UNCHANGED vars
             ELSE /\ Len(history) < MaxRecords
                  /\ UNCHANGED <<args, interrupted_at, fi>>
                  /\ IF sp = "TypeError" THEN
                         /\ history' = Append(history, Entry(line, msg, sp, "TypeError"))
                         /\ pc' = "exit"
                         /\ error' = "TypeError"
                         /\ UNCHANGED <<already_seen, stdout, pretty_printers,
                                        main_info_filters>>
                     ELSE Process(line, msg)

\* stdin is exhausted: the loop ends and, with --count, the summary loop starts.
EndOfStream ==
    /\ pc = "reading"
    /\ pc' = IF args.count THEN "flushing" ELSE "exit"
    /\ UNCHANGED <<args, error, interrupted_at, history, already_seen, stdout,
                   pretty_printers, main_info_filters, fi>>

\* Lines 149-151: one iteration of the summary loop.
FlushEntry ==
    /\ pc = "flushing"
    /\ fi < Len(already_seen)
    /\ LET info == already_seen[fi + 1].key
           count == already_seen[fi + 1].count
           printers == Lookup(pretty_printers, info["type"], "default_pretty_printer")
           r == CallPrinter(printers[info["type"]], info, CountSuffix(count))
       IN  /\ pretty_printers' = printers
           /\ IF IsRaise(r.ret) THEN
                  /\ stdout' = stdout \o r.printed
                  /\ pc' = "exit"
                  /\ error' = r.ret.exception
                  /\ UNCHANGED fi
              ELSE
                  /\ stdout' = stdout \o r.printed \o <<r.ret>>
                  /\ fi' = fi + 1
                  /\ UNCHANGED <<pc, error>>
    /\ UNCHANGED <<args, interrupted_at, history, already_seen, main_info_filters>>

FlushDone ==
    /\ pc = "flushing"
    /\ fi = Len(already_seen)
    /\ pc' = "exit"
    /\ UNCHANGED <<args, error, interrupted_at, history, already_seen, stdout,
                   pretty_printers, main_info_filters, fi>>

\* Lines 155-158: Ctrl-C while main() runs.
KeyboardInterrupt ==
    /\ pc \in {"start", "reading", "flushing"}
    /\ interrupted_at' = pc
    /\ pc' = AfterInterrupt(pc, args)
    /\ UNCHANGED <<args, error, history, already_seen, stdout,
                   pretty_printers, main_info_filters, fi>>

Next ==
    \/ Setup
    \/ ReadLine
    \/ EndOfStream
    \/ FlushEntry
    \/ FlushDone
    \/ KeyboardInterrupt

Spec == Init /\ [][Next]_vars

-----------------------------------------------------------------------------
(* What the run has read, for stating the properties *)

\* The records that went through lines 138-147 without an exception.
Processed == SelectSeq(history, LAMBDA e : e.sp = "True" /\ e.raised = "none")

Volatile == {"time", "pid", "fsuid", "comm"}

\* The registries as parsers.py builds them, with their defaults.
StartupFilter(t) ==
    IF t = S("AVC") THEN "apparmor_main_info"
    ELSE IF t = S("SECCOMP") THEN "seccomp_main_info" ELSE "default_info_filter"
StartupPrinter(t) ==
    IF t = S("AVC") THEN "apparmor_pretty"
    ELSE IF t = S("SECCOMP") THEN "seccomp_pretty" ELSE "default_pretty_printer"

KeyOf(msg) == FrozenDict(CallFilter(StartupFilter(msg["type"]), msg))

\* The entries of es whose key occurs in no earlier entry, in order.
RECURSIVE FirstOccurrences(_)
FirstOccurrences(es) ==
    IF Len(es) = 0 THEN <<>>
    ELSE LET before == SubSeq(es, 1, Len(es) - 1)
             e == es[Len(es)]
         IN  IF \E i \in DOMAIN before : KeyOf(before[i].msg) = KeyOf(e.msg)
             THEN FirstOccurrences(before)
             ELSE Append(FirstOccurrences(before), e)

Occurrences(es, key) == Cardinality({i \in DOMAIN es : KeyOf(es[i].msg) = key})

RECURSIVE Concat(_)
Concat(ss) == IF Len(ss) = 0 THEN <<>> ELSE Concat(SubSeq(ss, 1, Len(ss) - 1)) \o ss[Len(ss)]

\* What printing the rendering of msg puts on stdout.
Emission(msg, suffix) ==
    LET r == CallPrinter(StartupPrinter(msg["type"]), msg, suffix)
    IN  r.printed \o <<r.ret>>

SummaryBlocks(out) == SelectSeq(out, LAMBDA x : IsBlock(x) /\ x.suffix # NoSuffix)

\* The first n summary blocks of a flush in first-occurrence order.
ExpectedSummary(n) ==
    LET firsts == FirstOccurrences(Processed)
    IN  [i \in 1..n |->
            LET key == KeyOf(firsts[i].msg)
            IN  CallPrinter(StartupPrinter(key["type"]), key,
                            CountSuffix(Occurrences(Processed, key))).ret]

CleanExit == pc = "exit" /\ error = "none" /\ interrupted_at = "none"

-----------------------------------------------------------------------------
(* The claims *)

\* C1: in merge mode (no --count), in a run in which no exception was raised,
\* stdout holds exactly the renderings of the first occurrence of each
\* equivalence key, in order (a record with an already-seen key emits
\* nothing), and already_seen holds each key once with the number of its records.
C1_MergeEmitsFirstOccurrencesOnly ==
    (pc # "start" /\ args.merge /\ ~args.count /\ error = "none") =>
        LET firsts == FirstOccurrences(Processed)
        IN  /\ stdout = Concat([i \in DOMAIN firsts |-> Emission(firsts[i].msg, NoSuffix)])
            /\ already_seen = [i \in DOMAIN firsts |->
                                 [key |-> KeyOf(firsts[i].msg),
                                  count |-> Occurrences(Processed, KeyOf(firsts[i].msg))]]

\* C2: in count mode nothing is on stdout while the stream is read, and after a
\* clean end-of-stream stdout holds exactly one block per distinct key, rendered
\* from the stored record with the suffix (N), N the number of its records.
C2_CountEmitsOnlyAtEndOfStream ==
    args.count =>
        /\ (pc \in {"start", "reading"} /\ error = "none") => stdout = <<>>
        /\ CleanExit => SummaryBlocks(stdout) = ExpectedSummary(Len(already_seen))

\* C3: the summary blocks printed so far by the end-of-stream flush are the
\* summaries of the keys in first-occurrence order (with their final counts),
\* whatever the counts and the later repeats.
C3_FlushInFirstOccurrenceOrder ==
    /\ fi <= Len(FirstOccurrences(Processed))
    /\ SummaryBlocks(stdout) = ExpectedSummary(fi)

\* C3's case: key A, then key B, then A again, and the flush has run to its end.
C3_Witness ==
    /\ CleanExit /\ args.count
    /\ Len(Processed) = 3
    /\ Len(already_seen) = 2
    /\ KeyOf(Processed[1].msg) = KeyOf(Processed[3].msg)
    /\ KeyOf(Processed[2].msg) # KeyOf(Processed[1].msg)
    /\ Len(SummaryBlocks(stdout)) = 2

\* C4: the key stored for a record of an unregistered type holds none of the
\* volatile fields time, pid, fsuid, comm, so that the records of unregistered
\* types that differ only in those fields share one entry of already_seen.
C4_DefaultFilterDropsVolatile ==
    LET unreg == {i \in DOMAIN already_seen : already_seen[i].key["type"] \notin Registered}
        stripped == {[k \in DOMAIN Processed[i].msg \ Volatile |-> Processed[i].msg[k]] :
                        i \in {j \in DOMAIN Processed :
                                 Processed[j].msg["type"] \notin Registered}}
    IN  /\ \A i \in unreg : DOMAIN already_seen[i].key \cap Volatile = {}
        /\ args.merge => Cardinality(unreg) = Cardinality(stripped)

\* C5: a record whose time is outside [since, until] is rejected whatever the
\* type filters are, and with since > until every record is rejected: no line
\* gets past should_process, nothing is printed and nothing is raised.
C5_TimeWindowRejects ==
    /\ \A line \in Lines :
         LET msg == parse_message(line)
         IN  (msg # None /\ IsInt(msg["time"])
                /\ (msg["time"][2] < args.since \/ msg["time"][2] > args.until))
             => \A a \in Namespaces :
                   (a.since = args.since /\ a.until = args.until)
                   => should_process(a, msg, pretty_printers) = "False"
    /\ args.since > args.until => (history = <<>> /\ stdout = <<>> /\ error = "none")

\* C6: at every point of a run, for every record whose time is inside
\* [since, until] (bounds included), should_process accepts it iff none of:
\* (1) exclude is non-empty and holds its type, (2) only is non-empty and does
\* not hold its type, (3) --hide-unknown and its type was not registered at
\* startup.  The records processed before do not change the decision.
C6_ShouldProcessDecision ==
    \A line \in Lines :
        LET msg == parse_message(line)
        IN  (msg # None /\ IsInt(msg["time"])
               /\ args.since <= msg["time"][2] /\ msg["time"][2] <= args.until
               /\ (args.exclude = {} \/ args.only = {}))
            => ((should_process(args, msg, pretty_printers) = "True")
                <=> ~(\/ args.exclude # {} /\ msg["type"] \in args.exclude
                      \/ args.only # {} /\ msg["type"] \notin args.only
                      \/ args.hide_unknown /\ msg["type"] \notin Registered))

\* C6's case: records were processed, and of the lines in the window one is
\* accepted, one is rejected by --exclude and one only by --hide-unknown.
C6_Witness ==
    /\ pc = "reading" /\ Len(Processed) >= 2
    /\ args.hide_unknown /\ args.exclude # {}
    /\ args.since = 2 /\ args.until = UntilDefault
    /\ \E l1, l2, l3 \in Lines :
         LET m1 == parse_message(l1)
             m2 == parse_message(l2)
             m3 == parse_message(l3)
         IN  /\ m1 # None /\ m2 # None /\ m3 # None
             /\ m1["time"] = I(2) /\ m2["time"] = I(2) /\ m3["time"] = I(2)
             /\ should_process(args, m1, pretty_printers) = "True"
             /\ m2["type"] \in args.exclude
             /\ should_process(args, m2, pretty_printers) = "False"
             /\ m3["type"] \notin Registered
             /\ should_process(args, m3, pretty_printers) = "False"

\* C7: processing an accepted record never ends in a KeyError: an absent field
\* is shown as a placeholder or left out, by the registry's extractors and
\* renderers and by the later SECCOMP plugin alike.
C7_AbsentFieldNeverFails ==
    /\ error # "KeyError"
    /\ \A i \in DOMAIN history :
         (history[i].sp = "True" /\ history[i].msg["type"] = S("SECCOMP"))
         => /\ ~IsRaise(seccomp_main_info_plugin(history[i].msg))
            /\ ~IsRaise(seccomp_pretty_plugin(history[i].msg, NoSuffix).ret)

\* C8: a run interrupted before or while stdin is read ends without an error
\* and with no summary block printed; summary blocks exist only once the loop
\* over stdin has ended; and after a clean end-of-stream there is exactly one
\* summary block per key of the whole input.
C8_FlushOnlyOnCleanEndOfStream ==
    /\ interrupted_at \in {"start", "reading"}
         => (pc = "exit" /\ error = "none" /\ SummaryBlocks(stdout) = <<>>)
    /\ SummaryBlocks(stdout) # <<>>
         => (args.count /\ pc \in {"flushing", "exit"}
             /\ interrupted_at \in {"none", "flushing"})
    /\ (CleanExit /\ args.count)
         => /\ fi = Len(already_seen)
            /\ Len(SummaryBlocks(stdout)) = Len(FirstOccurrences(Processed))

\* C8's case: count mode, keys accumulated, interrupted between two lines.
C8_Witness ==
    /\ interrupted_at = "reading" /\ args.count
    /\ Len(already_seen) >= 2
    /\ pc = "exit" /\ stdout = <<>>

\* C9: every record that parse_message returned has the str TAG of its line's
\* header as type and the int <seconds> of the header as time.
C9_TypeAndTimeFromHeader ==
    \A i \in DOMAIN history :
        /\ history[i].msg["type"] = S(history[i].line.tag)
        /\ history[i].msg["time"] = I(DecimalValue[history[i].line.secs])

\* C10: the keys of the two registries are at all times the tags registered at
\* startup: a lookup of another tag adds no entry.
C10_RegistryImmutable ==
    /\ DOMAIN pretty_printers = Registered
    /\ DOMAIN main_info_filters = Registered
====
